---------------------------- MODULE Spec2Model ----------------------------
(***************************************************************************)
(* A model of the gossip node of src/src/main.rs: the Node struct, its     *)
(* message handler recv, its timer handler gossip, and the selection       *)
(* function find_gossip_messages.                                          *)
(*                                                                         *)
(* Spec        one node process driven by an arbitrary harness (any        *)
(*             request, any Gossip, any timer tick, in any order).         *)
(* ClusterSpec three node processes after the handshake, joined by a       *)
(*             network that may lose, delay and reorder Gossip envelopes.  *)
(* ScenarioSpec the cluster of the end-to-end scenario: fully connected,   *)
(*             Broadcast{message: 42} sent to n1.                          *)
(* LiveSpec    the cluster with the fairness of the timer and of delivery. *)
(* SelectSpec  node n1 with a store large enough for the redundancy sample *)
(*             of find_gossip_messages.                                    *)
(* StepSpec    the event loop of node n1, one step per event taken and one *)
(*             per line written to stdout.                                 *)
(*                                                                         *)
(* An Option<T> of the source is the set of its values: {} is None and     *)
(* {x} is Some(x).  A HashSet<String> that the code iterates over is the   *)
(* sequence of its elements in iteration order: the order is fixed when    *)
(* the set is built (decoding of the Topology message) and no code         *)
(* changes it afterwards.                                                  *)
(***************************************************************************)
EXTENDS Integers, Sequences, FiniteSets, TLC

VARIABLES
    node_id,        \* Node.node_id        : process -> Option<String>
    topology,       \* Node.topology       : process -> (node id -> neighbours)
    messages,       \* Node.messages       : process -> set of values
    node_has_seen,  \* Node.node_has_seen  : process -> (node id -> set of values)
    status,         \* process -> "Running" | "Terminated" | "Panicked"
    out,            \* the envelopes the last handled event wrote to stdout
    last,           \* the last handled event
    net,            \* Gossip envelopes in flight between processes
    eof,            \* process -> its stdin has reached end of input
    pc,             \* process -> "idle" (awaiting events.next()) | "handling"
    wire            \* the envelopes of out flushed to stdout so far

vars == <<node_id, topology, messages, node_has_seen, status, out, last, net,
          eof, pc, wire>>

---------------------------------------------------------------------------
(* Bounds of the model.                                                    *)

\* Broadcast values are 1..MaxVal.
MaxVal == 2

\* The harness numbers its requests 0..MaxMsgId (or sends no msg_id): small
\* counters, far below usize::MAX, so that msg_id + 1 never overflows.
MaxMsgId == 1

\* Ulid::new() yields a token of 1..MaxUlid.
MaxUlid == 1

\* At most MaxNet Gossip envelopes are in flight; the network drops older
\* ones to make room.
MaxNet == 2

\* The values of the specification of the selection: enough of them for the
\* redundancy sample of find_gossip_messages not to be empty.
MaxSelVal == 6

---------------------------------------------------------------------------
(* Data.                                                                   *)

None == {}
Some(x) == {x}

NodeIds == {"n1", "n2", "n3"}
Clients == {"c1"}
Values == 1..MaxVal
Ulids == 1..MaxUlid
MsgIds == {None} \cup {Some(i) : i \in 0..MaxMsgId}

\* The process Spec drives.
Self == "n1"

Range(s) == {s[i] : i \in DOMAIN s}

\* HashMap::new()
EmptyMap == [k \in {} |-> {}]

\* HashMap::insert(k, v)
MapInsert(m, k, v) == [x \in (DOMAIN m) \cup {k} |-> IF x = k THEN v ELSE m[x]]

\* The Topology maps the harness sends: each value lists a HashSet in its
\* iteration order.
Mesh ==
    [n \in NodeIds |-> CASE n = "n1" -> <<"n2", "n3">>
                         [] n = "n2" -> <<"n1", "n3">>
                         [] n = "n3" -> <<"n1", "n2">>]
MeshRev ==
    [n \in NodeIds |-> CASE n = "n1" -> <<"n3", "n2">>
                         [] n = "n2" -> <<"n3", "n1">>
                         [] n = "n3" -> <<"n2", "n1">>]
Star ==
    [n \in NodeIds |-> CASE n = "n1" -> <<"n2", "n3">>
                         [] n = "n2" -> <<"n1">>
                         [] n = "n3" -> <<"n1">>]
StarRev ==
    [n \in NodeIds |-> CASE n = "n1" -> <<"n3", "n2">>
                         [] n = "n2" -> <<"n1">>
                         [] n = "n3" -> <<"n1">>]
Partial == [n \in {"n2"} |-> <<"n1", "n3">>]
Topologies == {Mesh, MeshRev, Star, StarRev, Partial}

---------------------------------------------------------------------------
(* Message: envelopes and replies.                                         *)

MessageBody(msg_id, in_reply_to, message) ==
    [msg_id |-> msg_id, in_reply_to |-> in_reply_to, message |-> message]

\* Message::send_message: the envelope written to stdout.
send_message(src, dest, body) == [src |-> src, dest |-> dest, body |-> body]

\* send without the swap of source and destination.
send_unswapped(msg, payload) ==
    send_message(msg.src, msg.dest,
                 MessageBody({id + 1 : id \in msg.body.msg_id}, msg.body.msg_id, payload))

\* Message::send: the reply to msg carrying payload; msg_id is
\* self.body.msg_id.map(|id| id + 1).
send(msg, payload) ==
    send_message(msg.dest, msg.src,
                 MessageBody({id + 1 : id \in msg.body.msg_id}, msg.body.msg_id, payload))

---------------------------------------------------------------------------
(* Node::find_gossip_messages and Node::gossip.                            *)

\* The sample size rounded to the nearest integer.
random_select_round(n) == (n * 2 + 5) \div 10

\* (seen.len() as f32 * 0.2) as usize: the product truncated towards zero.
random_select(n) == (n * 2) \div 10

\* choose_multiple(rng, amount): every set of amount elements of s (all of s
\* when it has fewer).
choose_multiple(s, amount) ==
    IF amount >= Cardinality(s) THEN {s}
    ELSE {t \in SUBSET s : Cardinality(t) = amount}

\* find_gossip_messages with the two halves of the partition exchanged: the
\* acked values in full and a sample of the unacked ones.
find_gossip_swapped(ms, has_seen) ==
    LET seen   == {m \in ms : m \in has_seen}
        unseen == {m \in ms : m \notin has_seen}
    IN  {seen \cup pick : pick \in choose_multiple(unseen, random_select(Cardinality(unseen)))}

\* The sets find_gossip_messages can return for a store ms and a neighbour's
\* has_seen.
find_gossip_messages(ms, has_seen) ==
    LET seen   == {m \in ms : m \in has_seen}
        unseen == {m \in ms : m \notin has_seen}
    IN  {unseen \cup pick : pick \in choose_multiple(seen, random_select(Cardinality(seen)))}

\* The sets gossip can select for neighbour node: lines 146-150.
selections(p, node) ==
    IF node \in DOMAIN node_has_seen[p]
    THEN find_gossip_messages(messages[p], node_has_seen[p][node])
    ELSE {messages[p]}

\* A Gossip envelope carrying the neighbour as its source and the sender as
\* its destination.
GossipEnvelope_swapped(src, dest, ms) ==
    send_message(dest, src, MessageBody(None, None, [type |-> "gossip", has_seen |-> ms]))

\* The envelope gossip writes for neighbour dest: lines 155-166.
GossipEnvelope(src, dest, ms) ==
    send_message(src, dest, MessageBody(None, None, [type |-> "gossip", has_seen |-> ms]))

\* gossip_loop leaving the loop after its first neighbour.
gossip_loop_first(p, id, nodes, i) ==
    IF i > Len(nodes) THEN {<<>>}
    ELSE {IF ms = {} THEN <<>> ELSE <<GossipEnvelope(id, nodes[i], ms)>> :
             ms \in selections(p, nodes[i])}

\* The loop of gossip from the i-th neighbour on: the sequences of envelopes
\* it can write.  An empty selection returns from the function.
RECURSIVE gossip_loop(_, _, _, _)
gossip_loop(p, id, nodes, i) ==
    IF i > Len(nodes) THEN {<<>>}
    ELSE UNION {
            IF ms = {} THEN {<<>>}
            ELSE {<<GossipEnvelope(id, nodes[i], ms)>> \o rest :
                     rest \in gossip_loop(p, id, nodes, i + 1)}
            : ms \in selections(p, nodes[i])}

\* gossip reading the Topology entry of some node rather than its own.
gossip_any_entry(p) ==
    IF node_id[p] = None THEN {<<>>}
    ELSE LET id == CHOOSE n \in node_id[p] : TRUE
         IN  IF id \notin DOMAIN topology[p] THEN {<<>>}
             ELSE LET others == DOMAIN topology[p] \ {id}
                      key == IF others = {} THEN id ELSE CHOOSE k \in others : TRUE
                  IN  gossip_loop(p, id, topology[p][key], 1)

\* gossip falling back, for a node without a Topology entry of its own, on
\* the neighbours of some node that has one.
gossip_fallback(p) ==
    IF node_id[p] = None THEN {<<>>}
    ELSE LET id == CHOOSE n \in node_id[p] : TRUE
         IN  IF id \in DOMAIN topology[p] THEN gossip_loop(p, id, topology[p][id], 1)
             ELSE IF DOMAIN topology[p] = {} THEN {<<>>}
             ELSE gossip_loop(p, id, topology[p][CHOOSE k \in DOMAIN topology[p] : TRUE], 1)

\* Node::gossip: the sequences of envelopes one call can write.
gossip(p) ==
    IF node_id[p] = None THEN {<<>>}
    ELSE LET id == CHOOSE n \in node_id[p] : TRUE
         IN  IF id \notin DOMAIN topology[p] THEN {<<>>}
             ELSE gossip_loop(p, id, topology[p][id], 1)

---------------------------------------------------------------------------
(* Node::recv.                                                             *)

\* The store replaced by the broadcast value.
broadcast_replace(ms, message) == {message}

\* messages.extend(vec![message])
broadcast_extend(ms, message) == ms \cup {message}

\* The store replaced by the gossiped set.
gossip_replace(ms, has_seen) == has_seen

\* The Gossip arm recording has_seen without taking it into the store.
gossip_not_stored(ms, has_seen) == ms

\* messages.extend(has_seen)
gossip_extend(ms, has_seen) == ms \cup has_seen

\* The entry of src merged with has_seen rather than replaced.
has_seen_merge(m, src, has_seen) ==
    MapInsert(m, src, IF src \in DOMAIN m THEN m[src] \cup has_seen ELSE has_seen)

\* node_has_seen.insert(src, has_seen)
has_seen_insert(m, src, has_seen) == MapInsert(m, src, has_seen)

\* The handler panics (line 193): the process ends, nothing is written.
Panic(p) == status' = [status EXCEPT ![p] = "Panicked"]

\* msg.send(payload, &mut self.out): one envelope written.
Reply(p, msg, payload) ==
    /\ out' = <<send(msg, payload)>>
    /\ UNCHANGED status

\* ReadOk carrying what the neighbours have seen rather than the store.
read_ok_seen(p) ==
    [type |-> "read_ok",
     messages |-> UNION {node_has_seen[p][n] : n \in DOMAIN node_has_seen[p]}]

\* The payload of the reply to Read: lines 207-209.
read_ok(p) == [type |-> "read_ok", messages |-> messages[p]]

\* A Gossip arm that acknowledges: it writes its own store back to the sender.
gossip_arm_acks(p, msg) ==
    <<send(msg, [type |-> "gossip", has_seen |-> messages[p] \cup msg.body.message.has_seen])>>

\* What the Gossip arm writes (lines 213-216): it calls neither msg.send nor
\* Message::send_message.
gossip_arm_writes(p, msg) == <<>>

\* Reply arms that take the values of a ReadOk into the store.
ok_arms_absorb(ms, m) == IF m.type = "read_ok" THEN ms \cup m.messages ELSE ms

\* The store after the arms of InitOk, EchoOk, GenerateOk, TopologyOk,
\* BroadcastOk and ReadOk (lines 218-223): their bodies are empty.
ok_arms(ms, m) == ms

\* Node::recv on process p.
recv(p, msg) ==
    LET m == msg.body.message IN
    /\ status[p] = "Running"
    /\ ~eof[p]
    /\ last' = [ev |-> "recv", proc |-> p, msg |-> Some(msg)]
    /\ CASE m.type = "init" ->
              /\ node_id' = [node_id EXCEPT ![p] = Some(m.node_id)]
              /\ Reply(p, msg, [type |-> "init_ok"])
              /\ UNCHANGED <<topology, messages, node_has_seen>>
         [] m.type = "echo" ->
              /\ Reply(p, msg, [type |-> "echo_ok", echo |-> m.echo])
              /\ UNCHANGED <<node_id, topology, messages, node_has_seen>>
         [] m.type = "generate" ->
              /\ \E ulid \in Ulids :
                    IF node_id[p] = None
                    THEN out' = <<>> /\ Panic(p)
                    ELSE \E node \in node_id[p] :
                            Reply(p, msg, [type |-> "generate_ok",
                                           id |-> <<node, ulid>>])
              /\ UNCHANGED <<node_id, topology, messages, node_has_seen>>
         [] m.type = "topology" ->
              /\ topology' = [topology EXCEPT ![p] = m.topology]
              /\ Reply(p, msg, [type |-> "topology_ok"])
              /\ UNCHANGED <<node_id, messages, node_has_seen>>
         [] m.type = "broadcast" ->
              /\ messages' = [messages EXCEPT ![p] = broadcast_extend(@, m.message)]
              /\ Reply(p, msg, [type |-> "broadcast_ok"])
              /\ UNCHANGED <<node_id, topology, node_has_seen>>
         [] m.type = "read" ->
              /\ Reply(p, msg, read_ok(p))
              /\ UNCHANGED <<node_id, topology, messages, node_has_seen>>
         [] m.type = "gossip" ->
              /\ messages' = [messages EXCEPT ![p] = gossip_extend(@, m.has_seen)]
              /\ node_has_seen' =
                    [node_has_seen EXCEPT ![p] = has_seen_insert(@, msg.src, m.has_seen)]
              /\ out' = gossip_arm_writes(p, msg)
              /\ UNCHANGED <<node_id, topology, status>>
         [] OTHER ->
              /\ messages' = [messages EXCEPT ![p] = ok_arms(@, m)]
              /\ out' = <<>>
              /\ UNCHANGED <<node_id, topology, node_has_seen, status>>

\* Event::Gossip on process p: node.gossip().
tick(p) ==
    /\ status[p] = "Running"
    /\ last' = [ev |-> "tick", proc |-> p, msg |-> None]
    /\ out' \in gossip(p)
    /\ UNCHANGED <<node_id, topology, messages, node_has_seen, status>>

\* IntervalStream over time::interval (line 252): a tick every period, and the
\* stream never yields None.
interval_ended == FALSE

\* messages.merge(gossip_interval), line 255: the merged stream yields None,
\* which ends the while-let loop of line 258, once both of its sources have.
merge_ended(lines_ended, ticks_ended) == lines_ended /\ ticks_ended

\* The lines stream of stdin yields None on process p: end of input.
end_of_input(p) ==
    /\ status[p] = "Running"
    /\ ~eof[p]
    /\ eof' = [eof EXCEPT ![p] = TRUE]
    /\ status' = [status EXCEPT
                    ![p] = IF merge_ended(TRUE, interval_ended) THEN "Terminated" ELSE @]
    /\ last' = [ev |-> "eof", proc |-> p, msg |-> None]
    /\ out' = <<>>
    /\ wire' = <<>>
    /\ UNCHANGED <<node_id, topology, messages, node_has_seen, pc>>

\* The handler runs to its end within the step: every envelope it generates
\* is written and flushed (send_message) before events.next() is awaited again.
Whole ==
    /\ wire' = out'
    /\ UNCHANGED <<eof, pc>>

---------------------------------------------------------------------------
(* The inputs of one node.                                                 *)

Request(src, dest, msg_id, payload) ==
    send_message(src, dest, MessageBody(msg_id, None, payload))

InitInputs(p) ==
    {Request(c, p, i, [type |-> "init", node_id |-> n]) :
        c \in Clients, i \in MsgIds, n \in NodeIds}
EchoInputs(p) ==
    {Request(c, p, i, [type |-> "echo", echo |-> "hello"]) : c \in Clients, i \in MsgIds}
GenerateInputs(p) ==
    {Request(c, p, i, [type |-> "generate"]) : c \in Clients, i \in MsgIds}
TopologyInputs(p) ==
    {Request(c, p, i, [type |-> "topology", topology |-> t]) :
        c \in Clients, i \in MsgIds, t \in Topologies}
BroadcastInputs(p) ==
    {Request(c, p, i, [type |-> "broadcast", message |-> v]) :
        c \in Clients, i \in MsgIds, v \in Values}
ReadInputs(p) ==
    {Request(c, p, i, [type |-> "read"]) : c \in Clients, i \in MsgIds}
GossipInputs(p) ==
    {GossipEnvelope(n, p, hs) : n \in NodeIds \ {p}, hs \in SUBSET Values}
OkInputs(p) ==
    {send_message(c, p, MessageBody(None, Some(0), m)) :
        c \in Clients,
        m \in {[type |-> "init_ok"], [type |-> "echo_ok", echo |-> "hello"],
               [type |-> "generate_ok", id |-> <<p, 1>>], [type |-> "topology_ok"],
               [type |-> "broadcast_ok"]}
              \cup {[type |-> "read_ok", messages |-> ms] : ms \in SUBSET Values}}

---------------------------------------------------------------------------
(* Spec: one node and its harness.                                         *)

\* main, lines 235-242: the node as constructed.
Init ==
    /\ node_id = [p \in NodeIds |-> None]
    /\ topology = [p \in NodeIds |-> EmptyMap]
    /\ messages = [p \in NodeIds |-> {}]
    /\ node_has_seen = [p \in NodeIds |-> EmptyMap]
    /\ status = [p \in NodeIds |-> "Running"]
    /\ out = <<>>
    /\ last = [ev |-> "none", proc |-> Self, msg |-> None]
    /\ net = {}
    /\ eof = [p \in NodeIds |-> FALSE]
    /\ pc = [p \in NodeIds |-> "idle"]
    /\ wire = <<>>

RecvInit == \E msg \in InitInputs(Self) : recv(Self, msg) /\ Whole /\ UNCHANGED net
RecvEcho == \E msg \in EchoInputs(Self) : recv(Self, msg) /\ Whole /\ UNCHANGED net
RecvGenerate == \E msg \in GenerateInputs(Self) : recv(Self, msg) /\ Whole /\ UNCHANGED net
RecvTopology == \E msg \in TopologyInputs(Self) : recv(Self, msg) /\ Whole /\ UNCHANGED net
RecvBroadcast == \E msg \in BroadcastInputs(Self) : recv(Self, msg) /\ Whole /\ UNCHANGED net
RecvRead == \E msg \in ReadInputs(Self) : recv(Self, msg) /\ Whole /\ UNCHANGED net
RecvGossip == \E msg \in GossipInputs(Self) : recv(Self, msg) /\ Whole /\ UNCHANGED net
RecvOk == \E msg \in OkInputs(Self) : recv(Self, msg) /\ Whole /\ UNCHANGED net
Tick == tick(Self) /\ Whole /\ UNCHANGED net
Eof == end_of_input(Self) /\ UNCHANGED net

Next ==
    \/ RecvInit
    \/ RecvEcho
    \/ RecvGenerate
    \/ RecvTopology
    \/ RecvBroadcast
    \/ RecvRead
    \/ RecvGossip
    \/ RecvOk
    \/ Tick
    \/ Eof

Spec == Init /\ [][Next]_vars

---------------------------------------------------------------------------
(* ClusterSpec: three nodes after the handshake, and the network.          *)

\* The Topology the harness gives a cluster: a connected neighbour graph.
ClusterTopologies == {Mesh, MeshRev, Star, StarRev}

\* Every process has handled Init with its own id and the same Topology
\* (RecvInit and RecvTopology of Spec); nothing has been broadcast yet.
ClusterInit ==
    /\ node_id = [p \in NodeIds |-> Some(p)]
    /\ \E t \in ClusterTopologies : topology = [p \in NodeIds |-> t]
    /\ messages = [p \in NodeIds |-> {}]
    /\ node_has_seen = [p \in NodeIds |-> EmptyMap]
    /\ status = [p \in NodeIds |-> "Running"]
    /\ out = <<>>
    /\ last = [ev |-> "none", proc |-> Self, msg |-> None]
    /\ net = {}
    /\ eof = [p \in NodeIds |-> FALSE]
    /\ pc = [p \in NodeIds |-> "idle"]
    /\ wire = <<>>

\* The network takes the envelopes a node wrote; it holds at most MaxNet and
\* drops envelopes already in flight to make room.
Transmit(sent) ==
    {kept \cup sent : kept \in {k \in SUBSET net : Cardinality(k \cup sent) <= MaxNet}}

\* A client broadcasts v at p.
ClientBroadcast(p, v) ==
    /\ recv(p, Request("c1", p, Some(0), [type |-> "broadcast", message |-> v]))
    /\ Whole
    /\ UNCHANGED net

\* A client reads at p.
ClientRead(p) ==
    /\ recv(p, Request("c1", p, Some(0), [type |-> "read"]))
    /\ Whole
    /\ UNCHANGED net

\* The timer of p fires; what p writes goes to the network.
TimerTick(p) ==
    /\ tick(p)
    /\ Whole
    /\ net' \in Transmit(Range(out'))

\* The network delivers e to the process it is addressed to.
Deliver(e) ==
    /\ e \in net
    /\ recv(e.dest, e)
    /\ Whole
    /\ net' = net \ {e}

\* The network loses e.
Lose(e) ==
    /\ e \in net
    /\ net' = net \ {e}
    /\ UNCHANGED <<node_id, topology, messages, node_has_seen, status, out, last,
                   eof, pc, wire>>

ClusterNext ==
    \/ \E p \in NodeIds, v \in Values : ClientBroadcast(p, v)
    \/ \E p \in NodeIds : ClientRead(p)
    \/ \E p \in NodeIds : TimerTick(p)
    \/ \E e \in net : Deliver(e)
    \/ \E e \in net : Lose(e)

ClusterSpec == ClusterInit /\ [][ClusterNext]_vars

---------------------------------------------------------------------------
(* SelectSpec: node n1 after the handshake, with neighbours n2 and n3, of  *)
(* which n2 gossips; the store is large enough for find_gossip_messages to *)
(* draw a sample.                                                          *)

SelValues == 1..MaxSelVal

SelectInit == ClusterInit /\ topology[Self] = Mesh

SelectBroadcast ==
    \E v \in SelValues :
        /\ recv(Self, Request("c1", Self, Some(0), [type |-> "broadcast", message |-> v]))
        /\ Whole
        /\ UNCHANGED net

SelectGossip ==
    \E hs \in SUBSET SelValues :
        /\ recv(Self, GossipEnvelope("n2", Self, hs))
        /\ Whole
        /\ UNCHANGED net

SelectTick == tick(Self) /\ Whole /\ UNCHANGED net

SelectNext ==
    \/ SelectBroadcast
    \/ SelectGossip
    \/ SelectTick

SelectSpec == SelectInit /\ [][SelectNext]_vars

---------------------------------------------------------------------------
(* StepSpec: the event loop of node n1 after the handshake, one step per   *)
(* event taken and one per line written to stdout.                         *)

\* An event loop whose handlers run as tasks of their own: the next event is
\* taken whether or not the previous handler has returned.
loop_ready_spawned(p) == TRUE

\* events.next().await (line 258) is reached again only when the match arm of
\* the previous event (lines 259-265), a synchronous call, has returned.
loop_ready(p) == pc[p] = "idle"

\* The loop takes an event and enters its handler.
take(p) ==
    /\ loop_ready(p)
    /\ pc' = [pc EXCEPT ![p] = "handling"]
    /\ wire' = <<>>
    /\ UNCHANGED <<eof, net>>

\* writeln! and flush of Message::send_message (lines 104-106), for the next
\* envelope the handler generated.
write(p) ==
    /\ pc[p] = "handling"
    /\ status[p] = "Running"
    /\ Len(wire) < Len(out)
    /\ wire' = Append(wire, out[Len(wire) + 1])
    /\ UNCHANGED <<node_id, topology, messages, node_has_seen, status, out, last,
                   net, eof, pc>>

\* The handler returns to the loop.
return(p) ==
    /\ pc[p] = "handling"
    /\ status[p] = "Running"
    /\ wire = out
    /\ pc' = [pc EXCEPT ![p] = "idle"]
    /\ UNCHANGED <<node_id, topology, messages, node_has_seen, status, out, last,
                   net, eof, wire>>

StepBroadcast ==
    \E v \in Values :
        /\ recv(Self, Request("c1", Self, Some(0), [type |-> "broadcast", message |-> v]))
        /\ take(Self)

StepRead ==
    /\ recv(Self, Request("c1", Self, Some(0), [type |-> "read"]))
    /\ take(Self)

StepGossip == \E msg \in GossipInputs(Self) : recv(Self, msg) /\ take(Self)

StepTick == tick(Self) /\ take(Self)

StepWrite == write(Self)

StepReturn == return(Self)

StepNext ==
    \/ StepBroadcast
    \/ StepRead
    \/ StepGossip
    \/ StepTick
    \/ StepWrite
    \/ StepReturn

StepSpec == ClusterInit /\ [][StepNext]_vars

---------------------------------------------------------------------------
(* Reading the last event.                                                 *)

\* The event just handled was a timer tick on p.
Ticked(p) == last.ev = "tick" /\ last.proc = p

\* The event just handled was msg, of the given payload type, on p.
Received(p, type) ==
    /\ last.ev = "recv"
    /\ last.proc = p
    /\ \E msg \in last.msg : msg.body.message.type = type

LastMsg == CHOOSE msg \in last.msg : TRUE

RequestTypes == {"init", "echo", "generate", "topology", "broadcast", "read"}

\* p has an identity and its Topology has an entry for it.
HasNeighbours(p) == \E id \in node_id[p] : id \in DOMAIN topology[p]

\* The neighbours of p: the Topology entry of its own id.
Neighbours(p) ==
    UNION {IF id \in DOMAIN topology[p] THEN Range(topology[p][id]) ELSE {} :
              id \in node_id[p]}

\* The Gossip envelopes the last event wrote to dest.
GossipTo(dest) ==
    {i \in DOMAIN out : out[i].dest = dest /\ out[i].body.message.type = "gossip"}

\* The set selected for neighbour n of p is empty: unacked and sample are both
\* empty (the sample's size is fixed, so either every selection is empty or none).
SelectionEmpty(p, n) == {} \in selections(p, n)

---------------------------------------------------------------------------
(* Claims checked under Spec.                                              *)

\* C2: on a tick of an initialised node the decision to send is made per
\* neighbour: each neighbour with a non-empty selection gets exactly one
\* Gossip envelope and each neighbour with an empty selection gets none,
\* whatever the selections of the other neighbours are.
C2_PerNeighbourDecision ==
    \A p \in NodeIds :
        (Ticked(p) /\ HasNeighbours(p)) =>
            \A n \in Neighbours(p) :
                Cardinality(GossipTo(n)) = IF SelectionEmpty(p, n) THEN 0 ELSE 1

\* C3: handling Gossip{has_seen} from S sets the store to old store \cup
\* has_seen and the entry of S to exactly has_seen (created if absent, replaced
\* if present, S a neighbour or not); the other entries, the Topology and the
\* identity are unchanged.
C3_GossipHandled ==
    [][\A p \in NodeIds :
          (last'.ev = "recv" /\ last'.proc = p /\
           \E msg \in last'.msg : msg.body.message.type = "gossip") =>
              LET msg == CHOOSE x \in last'.msg : TRUE
                  hs  == msg.body.message.has_seen
              IN  /\ messages'[p] = messages[p] \cup hs
                  /\ DOMAIN node_has_seen'[p] = DOMAIN node_has_seen[p] \cup {msg.src}
                  /\ node_has_seen'[p][msg.src] = hs
                  /\ \A n \in DOMAIN node_has_seen[p] \ {msg.src} :
                        node_has_seen'[p][n] = node_has_seen[p][n]
                  /\ topology' = topology
                  /\ node_id' = node_id]_vars

\* A Gossip from a node that is no neighbour has replaced the store's view of
\* it with a set smaller than the store.
C3_Witness ==
    /\ Received(Self, "gossip")
    /\ LastMsg.src \notin Neighbours(Self)
    /\ HasNeighbours(Self)
    /\ node_has_seen[Self][LastMsg.src] = {2}
    /\ messages[Self] = {1, 2}

\* C4: the store is empty at startup and no event removes a value from it.
C4_Monotone ==
    /\ \A p \in NodeIds : messages[p] = {}
    /\ [][\A p \in NodeIds : messages[p] \subseteq messages'[p]]_vars

\* A Gossip carrying less than the store has been handled and the store is whole.
C4_Witness ==
    /\ Received(Self, "gossip")
    /\ LastMsg.body.message.has_seen = {1}
    /\ messages[Self] = {1, 2}

\* C5: on a tick of an initialised node with a non-empty store, every neighbour
\* that has never gossiped to it is sent one Gossip carrying the whole store.
C5_FirstContact ==
    \A p \in NodeIds :
        (Ticked(p) /\ HasNeighbours(p) /\ messages[p] # {}) =>
            \A n \in Neighbours(p) \ DOMAIN node_has_seen[p] :
                /\ GossipTo(n) # {}
                /\ \A i \in GossipTo(n) : out[i].body.message.has_seen = messages[p]

\* C6 as stated: every request is answered by exactly one reply, with source
\* and destination swapped, in_reply_to the request's msg_id and msg_id the
\* request's msg_id + 1.
C6_OneReplyAlways ==
    \A p \in NodeIds : \A t \in RequestTypes :
        Received(p, t) =>
            /\ Len(out) = 1
            /\ out[1].src = LastMsg.dest
            /\ out[1].dest = LastMsg.src
            /\ out[1].body.in_reply_to = LastMsg.body.msg_id
            /\ out[1].body.msg_id = {id + 1 : id \in LastMsg.body.msg_id}

\* C6 amended: a request whose handler does not panic is answered by exactly
\* one reply correlated as above; the handler panics, writing nothing, only on
\* a Generate that arrives before any Init.
C6_ReplyCorrelation ==
    \A p \in NodeIds : \A t \in RequestTypes :
        Received(p, t) =>
            IF status[p] = "Running"
            THEN /\ Len(out) = 1
                 /\ out[1].src = LastMsg.dest
                 /\ out[1].dest = LastMsg.src
                 /\ out[1].body.in_reply_to = LastMsg.body.msg_id
                 /\ out[1].body.msg_id = {id + 1 : id \in LastMsg.body.msg_id}
            ELSE /\ out = <<>>
                 /\ t = "generate"
                 /\ node_id[p] = None

\* A request addressed to the process under a name that is not its identity
\* has been answered with the next msg_id.
C6_Witness ==
    /\ Received(Self, "read")
    /\ LastMsg.body.msg_id = Some(1)
    /\ node_id[Self] = Some("n2")
    /\ Len(out) = 1
    /\ out[1].src = Self
    /\ out[1].body.msg_id = Some(2)

\* C7: the reply to a Read is one ReadOk carrying exactly the store, and
\* handling Read changes neither the store, the Topology, the per-neighbour
\* view nor the identity.
C7_ReadReturnsStore ==
    [][\A p \in NodeIds :
          (last'.ev = "recv" /\ last'.proc = p /\
           \E msg \in last'.msg : msg.body.message.type = "read") =>
              /\ Len(out') = 1
              /\ out'[1].body.message = [type |-> "read_ok", messages |-> messages[p]]
              /\ UNCHANGED <<messages, topology, node_has_seen, node_id>>]_vars

\* A Read has been answered on a node whose store holds a broadcast value and
\* whose neighbour has seen less.
C7_Witness ==
    /\ Received(Self, "read")
    /\ messages[Self] = {1, 2}
    /\ \E n \in DOMAIN node_has_seen[Self] : node_has_seen[Self][n] = {1}
    /\ out[1].body.message.messages = {1, 2}

\* C8: Broadcast{message: v} adds v to the store and replies BroadcastOk; when
\* v is already in the store the store is left as it was, and the reply is
\* again BroadcastOk; the Topology and the per-neighbour view never change.
C8_IdempotentBroadcast ==
    [][\A p \in NodeIds :
          (last'.ev = "recv" /\ last'.proc = p /\
           \E msg \in last'.msg : msg.body.message.type = "broadcast") =>
              LET v == (CHOOSE x \in last'.msg : TRUE).body.message.message
              IN  /\ messages'[p] = messages[p] \cup {v}
                  /\ (v \in messages[p] => messages'[p] = messages[p])
                  /\ Len(out') = 1
                  /\ out'[1].body.message = [type |-> "broadcast_ok"]
                  /\ UNCHANGED <<topology, node_has_seen>>]_vars

\* A value already in the store has been broadcast again.
C8_Witness ==
    /\ Received(Self, "broadcast")
    /\ LastMsg.body.message.message = 1
    /\ messages[Self] = {1}
    /\ out[1].body.message.type = "broadcast_ok"
    /\ DOMAIN node_has_seen[Self] # {}

\* C9: a tick of the node with identity n writes Gossip envelopes only, each
\* from n, without msg_id, to a node listed in Topology[n], at most one per
\* listed node; without identity or without entry it writes nothing.
C9_FanOutBounded ==
    \A p \in NodeIds :
        Ticked(p) =>
            /\ \A i \in DOMAIN out :
                  /\ out[i].body.message.type = "gossip"
                  /\ out[i].src \in node_id[p]
                  /\ out[i].dest \in Neighbours(p)
                  /\ out[i].body.msg_id = None
            /\ \A i, j \in DOMAIN out : out[i].dest = out[j].dest => i = j

\* A tick has written one Gossip to each of two neighbours.
C9_Witness ==
    /\ Ticked(Self)
    /\ Len(out) = 2
    /\ Cardinality(Neighbours(Self)) = 2

\* C11: the identity is assigned exactly once.  An Init handled by a node
\* that already has an identity is answered with InitOk and leaves the
\* identity as the first Init set it.
C11_IdentityOnce ==
    [][\A p \in NodeIds :
          (/\ node_id[p] # None
           /\ last'.ev = "recv" /\ last'.proc = p
           /\ \E msg \in last'.msg : msg.body.message.type = "init") =>
              /\ node_id'[p] = node_id[p]
              /\ Len(out') = 1
              /\ out'[1].body.message.type = "init_ok"]_vars

\* C12: once end of input is reached the event loop terminates; the timer
\* does not keep it running, so no tick is handled after end of input.
C12_TerminatesAtEof ==
    \A p \in NodeIds : eof[p] => ~Ticked(p)

OkTypes == {"init_ok", "echo_ok", "generate_ok", "topology_ok", "broadcast_ok", "read_ok"}

\* C13: the reply variants are ignored on receipt.  Handling an InitOk,
\* EchoOk, GenerateOk, TopologyOk, BroadcastOk or ReadOk (whatever values the
\* ReadOk carries) writes no envelope and changes neither the identity, the
\* topology, the store nor what the neighbours are known to have seen.
C13_RepliesIgnored ==
    [][\A p \in NodeIds :
          (/\ last'.ev = "recv" /\ last'.proc = p
           /\ \E msg \in last'.msg : msg.body.message.type \in OkTypes) =>
              /\ out' = <<>>
              /\ node_id'[p] = node_id[p]
              /\ topology'[p] = topology[p]
              /\ messages'[p] = messages[p]
              /\ node_has_seen'[p] = node_has_seen[p]
              /\ status'[p] = status[p]]_vars

\* A ReadOk carrying a value the store lacks has been handled by an
\* initialised node whose store is not empty.
C13_Witness ==
    /\ Received(Self, "read_ok")
    /\ node_id[Self] # None
    /\ messages[Self] # {}
    /\ LastMsg.body.message.messages \ messages[Self] # {}

\* C14: Gossip is one-way.  The step that handles an inbound Gossip writes no
\* envelope, neither to the sender nor to anyone else; every Gossip envelope
\* a node writes is written by a timer tick.
C14_GossipOneWay ==
    \A p \in NodeIds :
        /\ Received(p, "gossip") => out = <<>>
        /\ (last.proc = p /\ GossipTo("n1") \cup GossipTo("n2") \cup GossipTo("n3") # {})
              => last.ev = "tick"

\* A Gossip with values has been handled by a node that has an
\* identity and neighbours to gossip to.
C14_Witness ==
    /\ Received(Self, "gossip")
    /\ HasNeighbours(Self)
    /\ LastMsg.body.message.has_seen # {}
    /\ LastMsg.body.message.has_seen = messages[Self]

\* C17: a timer tick on a node that has no identity yet, or whose topology
\* has no entry for its own identity, writes no envelope and changes no state.
C17_TickWithoutNeighbours ==
    [][\A p \in NodeIds :
          (last'.ev = "tick" /\ last'.proc = p /\ ~HasNeighbours(p)) =>
              /\ out' = <<>>
              /\ node_id'[p] = node_id[p]
              /\ topology'[p] = topology[p]
              /\ messages'[p] = messages[p]
              /\ node_has_seen'[p] = node_has_seen[p]
              /\ status'[p] = status[p]]_vars

\* A tick has been handled by a node that holds values and has an identity,
\* but whose topology has entries for other nodes only.
C17_Witness ==
    /\ Ticked(Self)
    /\ node_id[Self] # None
    /\ topology[Self] = Partial
    /\ ~HasNeighbours(Self)
    /\ messages[Self] # {}

\* C20: every entry of node_has_seen is a subset of the node's own store, so
\* for a neighbour that has gossiped the already-acked part of the store that
\* find_gossip_messages computes is exactly the neighbour's entry.
C20_SeenWithinStore ==
    \A p \in NodeIds : \A n \in DOMAIN node_has_seen[p] :
        /\ node_has_seen[p][n] \subseteq messages[p]
        /\ {m \in messages[p] : m \in node_has_seen[p][n]} = node_has_seen[p][n]

\* Two neighbours have gossiped different sets of values, and the store
\* holds a value one of them has not reported.
C20_Witness ==
    /\ DOMAIN node_has_seen[Self] = {"n2", "n3"}
    /\ node_has_seen[Self]["n2"] # {}
    /\ node_has_seen[Self]["n3"] # node_has_seen[Self]["n2"]
    /\ messages[Self] \ node_has_seen[Self]["n2"] # {}

---------------------------------------------------------------------------
(* Claims checked under SelectSpec.                                        *)

\* The values of the Gossip that the last tick wrote to neighbour n.
SentTo(n) == {out[i].body.message.has_seen : i \in GossipTo(n)}

C16_SampleRounded ==
    \A p \in NodeIds : \A n \in DOMAIN node_has_seen[p] :
        Ticked(p) =>
            \A sent \in SentTo(n) :
                LET acked == node_has_seen[p][n] \cap messages[p]
                    k     == Cardinality(sent \cap acked)
                IN  /\ 10 * k <= 2 * Cardinality(acked) + 5
                    /\ 2 * Cardinality(acked) + 5 < 10 * k + 10

\* C16: the redundancy sample consists of distinct members of the acked part
\* of the store, and their number is |already_acked| * 0.2 truncated towards
\* zero: the greatest k with 5 * k <= |already_acked|.
C16_SampleTruncated ==
    \A p \in NodeIds : \A n \in DOMAIN node_has_seen[p] :
        Ticked(p) =>
            \A sent \in SentTo(n) :
                LET acked == node_has_seen[p][n] \cap messages[p]
                    k     == Cardinality(sent \cap acked)
                IN  /\ 5 * k <= Cardinality(acked)
                    /\ Cardinality(acked) < 5 * k + 5
                    /\ sent \ (messages[p] \ node_has_seen[p][n]) \subseteq acked

\* A tick has sent n2 a sample of one of the at least five values it has
\* acked, next to a value it has not.
C16_Witness ==
    /\ Ticked(Self)
    /\ "n2" \in DOMAIN node_has_seen[Self]
    /\ Cardinality(node_has_seen[Self]["n2"]) >= 5
    /\ \E sent \in SentTo("n2") :
          /\ Cardinality(sent \cap node_has_seen[Self]["n2"]) = 1
          /\ sent \ node_has_seen[Self]["n2"] # {}

---------------------------------------------------------------------------
(* Claims checked under StepSpec.                                          *)

\* C19: events are serialised.  An event, message or tick, is taken only
\* when the handler of the previous one has returned with all of its
\* envelopes written; the envelopes reach stdout in the order the handler
\* generated them; and a ReadOk on stdout carries the whole store as it
\* stands, no other handler having run since the Read was taken.
C19_EventsSerialised ==
    [][\A p \in NodeIds :
          /\ (last'.proc = p /\ pc'[p] = "handling" /\ wire' = <<>>) =>
                 (pc[p] = "idle" /\ wire = out)
          /\ last'.proc = p =>
                 /\ Len(wire') <= Len(out')
                 /\ wire' = SubSeq(out', 1, Len(wire'))
                 /\ \A i \in DOMAIN wire' :
                       wire'[i].body.message.type = "read_ok" =>
                           wire'[i].body.message.messages = messages'[p]]_vars

\* A tick is being handled by a node with values: the first of its two
\* Gossip envelopes is on stdout and the second is not yet.
C19_Witness ==
    /\ Ticked(Self)
    /\ pc[Self] = "handling"
    /\ Len(out) = 2
    /\ Len(wire) = 1

---------------------------------------------------------------------------
(* Claims checked under the cluster specifications.                        *)

\* C18: in every state of the cluster, whatever the network lost, delayed or
\* reordered, what node a holds as seen by node b is a subset of b's store.
C18_SeenIsSubsetOfNeighbourStore ==
    \A a \in NodeIds : \A b \in DOMAIN node_has_seen[a] :
        node_has_seen[a][b] \subseteq messages[b]

\* n1 holds a report of n2 that is older than n2's store, after a later
\* Gossip of n2 was lost or is still in flight: n2 has a value n1 lacks.
C18_Witness ==
    /\ "n2" \in DOMAIN node_has_seen["n1"]
    /\ node_has_seen["n1"]["n2"] # {}
    /\ node_has_seen["n1"]["n2"] # messages["n2"]
    /\ messages["n2"] \ messages["n1"] # {}
    /\ "n1" \in DOMAIN node_has_seen["n2"]

FullyConnected == topology["n1"] \in {Mesh, MeshRev}

\* The last event wrote a Gossip to n that carries v.
GossipCarries(n, v) == \E i \in GossipTo(n) : v \in out[i].body.message.has_seen

\* The scenario of C10: a fully connected cluster in which n1 is sent
\* Broadcast{message: 42}.
ScenarioValues == {42}

ScenarioInit == ClusterInit /\ FullyConnected

ScenarioNext ==
    \/ \E v \in ScenarioValues : ClientBroadcast("n1", v)
    \/ \E p \in NodeIds : ClientRead(p)
    \/ \E p \in NodeIds : TimerTick(p)
    \/ \E e \in net : Deliver(e)
    \/ \E e \in net : Lose(e)

ScenarioSpec == ScenarioInit /\ [][ScenarioNext]_vars

\* C10: in the fully connected cluster where n1 has handled Broadcast{v}, a
\* tick of n1 writes to each of n2 and n3 that does not hold v a Gossip
\* carrying v; the delivery of a Gossip carrying v leaves v in the store of
\* the node it is delivered to; and a Read on a node whose store holds v
\* returns a set containing v.
C10_EndToEnd ==
    [][\A v \in ScenarioValues :
          /\ (Ticked("n1")' /\ v \in messages["n1"]) =>
                \A n \in {"n2", "n3"} : v \in messages[n] \/ GossipCarries(n, v)'
          /\ \A n \in {"n2", "n3"} :
                (Received(n, "gossip")' /\ v \in LastMsg'.body.message.has_seen) =>
                    v \in messages'[n]
          /\ \A n \in {"n2", "n3"} :
                (Received(n, "read")' /\ v \in messages[n]) =>
                    (Len(out') = 1 /\ v \in out'[1].body.message.messages)]_vars

\* The value broadcast at n1 has reached n2 and
\* n3 by Gossip from n1, and a Read on n3 has returned it.
C10_Witness ==
    /\ Received("n3", "read")
    /\ 42 \in out[1].body.message.messages
    /\ 42 \in messages["n2"]
    /\ "n1" \in DOMAIN node_has_seen["n2"]
    /\ "n1" \in DOMAIN node_has_seen["n3"]
    /\ 42 \in node_has_seen["n2"]["n1"] \cap node_has_seen["n3"]["n1"]

---------------------------------------------------------------------------
(* LiveSpec: the cluster under the fairness C1 assumes.                    *)

\* The values broadcast in LiveSpec.
LiveValues == {1}

\* The Gossip envelopes nodes of LiveSpec write.
LiveEnvelopes ==
    {GossipEnvelope(s, d, ms) :
        s \in NodeIds, d \in NodeIds, ms \in (SUBSET LiveValues) \ {{}}}

LiveNext ==
    \/ \E p \in NodeIds, v \in LiveValues : ClientBroadcast(p, v)
    \/ \E p \in NodeIds : TimerTick(p)
    \/ \E e \in net : Deliver(e)
    \/ \E e \in net : Lose(e)

\* The interval timer of every process keeps firing (lines 252-255), and an
\* envelope that is in flight again and again is delivered again and again.
LiveFairness ==
    /\ \A p \in NodeIds : WF_vars(TimerTick(p))
    /\ \A e \in LiveEnvelopes : SF_vars(Deliver(e))

LiveSpec == ClusterInit /\ [][LiveNext]_vars /\ LiveFairness

\* C1: in a cluster whose nodes are initialised and share a connected
\* Topology, under fair timers and fair delivery, a value in the store of one
\* node is eventually in the store of every node.
C1_Convergence ==
    \A v \in LiveValues : \A a \in NodeIds :
        (v \in messages[a]) ~> (\A n \in NodeIds : v \in messages[n])

=============================================================================
